---- MODULE Spec2Model ----
(***************************************************************************)
(* Model of the image-processing backend (app/main.py, app/auth.py,        *)
(* app/models.py, app/routers/external.py).                                *)
(*                                                                         *)
(* Persisted state: the image_jobs table (jobs), the processing_logs table *)
(* (logs), the uploads and processed directories.  A submission request    *)
(* (create_job, fetch_random_image, generate_qrcode) is a process whose    *)
(* steps are the statements of its handler between two effects on the      *)
(* persisted state; every file write and every db.commit() may fail.  A    *)
(* failed commit persists nothing: the session rolls back and expires the  *)
(* row, and the exception goes where the handler's code sends it.          *)
(*                                                                         *)
(* The submission handlers are coroutines of one event loop and hold no    *)
(* await once they write, so one submission runs at a time (Turn).  The    *)
(* readers (get_meta, get_file, my_logs, admin_logs) are plain functions   *)
(* run on the thread pool: each is one query, taken between any two steps  *)
(* of a submission (ReadSpec).                                             *)
(*                                                                         *)
(* _get_with_retries is also taken alone (RetrySpec): one call with any    *)
(* attempts argument against any upstream behaviour, with the requests it  *)
(* made and the waits it slept kept in fetch.                              *)
(***************************************************************************)
EXTENDS Integers, Sequences, FiniteSets, TLC

\* ---------------------------------------------------------------- bounds
\* Number of submission requests in a behaviour of Spec.
MaxSubmits == 2
\* Number of submission requests in a behaviour of ReadSpec, where readers run
\* between any two steps of a submission.
MaxReadSubmits == 1

\* ---------------------------------------------------------------- constants
\* _get_with_retries(..., attempts: int = 3)
Attempts == 3
\* limit: int = Query(.., le=200) of admin_logs and my_logs
MaxLimit == 200
\* asyncio.sleep(0.6 * i), in tenths of a second
BaseDelay == 6

NULL == "NULL"
\* a path column that is NULL
NoPath == <<>>

\* auth.py _users: username -> role
Users == {"alice", "admin"}
users_role(u) == IF u = "admin" THEN "admin" ELSE "user"

\* models.py JobStatus
JobStatus == {"processing", "done", "error"}
Terminal == {"done", "error"}

Reqs == 1..MaxSubmits
\* a job id no row ever has (ids are uuid4 strings; this one is never drawn)
NoSuchJob == 0

Ops == {"grayscale", "edge"}
\* the op query parameter as the client sends it; Query(pattern="^(grayscale|edge)$")
\* lets the handler run only for a member of Ops
OpInputs == Ops \cup {"sepia"}
\* file.content_type as the client declares it
ContentTypes == {"image/png", "text/plain"}
\* file.content_type.startswith("image/")
IsImageType(ct) == ct \in {"image/png", "image/jpeg"}
\* "image" in ctype
ContainsImage(ctype) == ctype \in {"image/png", "image/jpeg"}
\* file.filename: the client chooses it; uploads that declare the same name
Filenames == {"a.png"}

\* what one upstream request can yield: a response with a status code, or an
\* httpx exception: one of the two _get_with_retries catches, or another one
\* client.get raises (ConnectTimeout is a TimeoutException, neither a
\* ReadTimeout nor a ConnectError)
Statuses == {200, 404, 429, 500, 501, 503}
CaughtErrors == {"ReadTimeout", "ConnectError"}
Outcome == [kind : {"response"}, status : Statuses]
             \cup [kind : CaughtErrors \cup {"ConnectTimeout"}, status : {0}]
\* content-type header of a 200 response
UpstreamTypes == {"image/jpeg", "text/html"}

\* str(e) of the exceptions the processing steps can raise; MemoryError() has
\* the empty text.
ProcessErrors == {"", "cannot identify image file"}
DbError == "database is locked"
IoError == "No space left on device"

VARIABLES
    jobs,       \* image_jobs: committed rows, job id -> row
    logs,       \* processing_logs: committed rows in insertion (id) order
    uploads,    \* UPLOADS directory: path -> payload written
    processed,  \* PROCESSED directory: path -> payload written
    req,        \* submission requests: position in the handler and its locals
    obs,        \* the response of the read that was the last step, if it was a read
    fetch,      \* one call of _get_with_retries taken alone: its inputs and how it ended
    listing     \* one call of list_images: its query parameters and its response

vars == <<jobs, logs, uploads, processed, req, obs, fetch, listing>>

\* ---------------------------------------------------------------- helpers
\* cause: the upstream status code the detail text quotes, 0 when it quotes none
NoResp == [code |-> 0, detail |-> "", cause |-> 0]
IdleReq == [pc |-> "idle", handler |-> "none", user |-> NULL, op |-> NULL,
            path |-> NoPath, ctype |-> NULL, job |-> NoSuchJob, exc |-> NULL, resp |-> NoResp]

NoPrior == [job_id |-> NoSuchJob, status |-> NULL]
NoObs == [op |-> "none", user |-> NULL, job_id |-> NoSuchJob, code |-> 0, detail |-> "",
          status |-> NULL, processed_path |-> NoPath, rows |-> <<>>, filter |-> NULL,
          limit |-> 0, prior |-> NoPrior]

\* uuid4: an id no existing row has
FreshJobId == Cardinality(DOMAIN jobs) + 1

\* uuid4 hex in the name of an external original: a name no existing file has
FreshUploadPath(prefix) == <<prefix, Cardinality(DOMAIN uploads) + 1>>

Put(f, k, v) == [x \in DOMAIN f \cup {k} |-> IF x = k THEN v ELSE f[x]]

\* the request ends: its locals are gone, the response (and, for the record, the
\* job it had created) is what is left of it
EndReq(r, pc, code, detail) ==
    req' = [req EXCEPT ![r] = [IdleReq EXCEPT !.pc = pc, !.handler = req[r].handler,
                                 !.job = req[r].job,
                                 !.resp = [NoResp EXCEPT !.code = code, !.detail = detail]]]

Raise(r, code, detail) == EndReq(r, "raised", code, detail)

Return(r) == EndReq(r, "returned", 200, "ok")

Goto(r, pc) == req' = [req EXCEPT ![r].pc = pc]

At(r, handler, pc) == req[r].handler = handler /\ req[r].pc = pc

\* ImageJob(...): the row as db.add(job); db.commit() persists it
ImageJob(user, path, mime, source, op) ==
    [user_id |-> user, original_path |-> path, processed_path |-> NoPath,
     mime_type |-> mime, source |-> source, op |-> op, status |-> "processing",
     error_message |-> NULL, has_size |-> FALSE]

\* ProcessingLog(...): ids assigned by the autoincrement key
ProcessingLog(user, job, action, details) ==
    [id |-> Len(logs) + 1, user_id |-> user, job_id |-> job, action |-> action,
     details |-> details]

\* a log writer that keeps only the newest entry
log_action_overwrite(user, job, action, details) ==
    logs' = <<ProcessingLog(user, job, action, details)>>

\* log_action: db.add(log); db.commit()
log_action(user, job, action, details) ==
    logs' = Append(logs, ProcessingLog(user, job, action, details))

\* job.processed_path = ..; job.width, job.height = ..; job.status = done; db.commit()
commit_done(j) ==
    jobs' = [jobs EXCEPT ![j] = [@ EXCEPT !.processed_path = <<"processed", j>>,
                                          !.has_size = TRUE, !.status = "done"]]

\* an error update that also hands the row to another owner
commit_error_reassign(j, e) ==
    jobs' = [jobs EXCEPT ![j] = [@ EXCEPT !.status = "error", !.error_message = e,
                                          !.user_id = "admin"]]

\* job.status = error; job.error_message = str(e); db.commit()
commit_error(j, e) ==
    jobs' = [jobs EXCEPT ![j] = [@ EXCEPT !.status = "error", !.error_message = e]]

\* ------------------------------------------------------- _get_with_retries
Retryable == {429, 500, 502, 503, 504}

\* a loop that treats every non-200 status as worth another attempt
RECURSIVE retry_loop_retry_all(_, _, _, _, _)
retry_loop_retry_all(outs, i, attempts, last_exc, sleeps) ==
    IF i > attempts
    THEN [result |-> "raise", code |-> 502,
          detail |-> IF last_exc # NULL THEN <<"External API network error", last_exc>>
                     ELSE <<"External API failed after retries">>,
          requests |-> attempts, sleeps |-> sleeps]
    ELSE IF outs[i].kind = "response"
         THEN IF outs[i].status = 200
              THEN [result |-> "return", code |-> 200, detail |-> <<"ok">>,
                    requests |-> i, sleeps |-> sleeps]
              ELSE retry_loop_retry_all(outs, i + 1, attempts, last_exc,
                                        Append(sleeps, BaseDelay * i))
         ELSE retry_loop_retry_all(outs, i + 1, attempts, outs[i].kind,
                                   Append(sleeps, BaseDelay * i))

\* the loop of lines 43-60 from attempt i on; outs[i] is what attempt i yields,
\* sleeps the waits made so far.  An exception the except clause of line 54
\* does not name leaves the function, and the handler, as it is: the client
\* gets a 500
RECURSIVE retry_loop(_, _, _, _, _)
retry_loop(outs, i, attempts, last_exc, sleeps) ==
    IF i > attempts
    THEN [result |-> "raise", code |-> 502,
          detail |-> IF last_exc # NULL THEN <<"External API network error", last_exc>>
                     ELSE <<"External API failed after retries">>,
          requests |-> attempts, sleeps |-> sleeps]
    ELSE IF outs[i].kind = "response"
         THEN IF outs[i].status = 200
              THEN [result |-> "return", code |-> 200, detail |-> <<"ok">>,
                    requests |-> i, sleeps |-> sleeps]
              ELSE IF outs[i].status \in Retryable
                   THEN retry_loop(outs, i + 1, attempts, last_exc,
                                   Append(sleeps, BaseDelay * i))
                   ELSE [result |-> "raise", code |-> 502,
                         detail |-> <<"External API HTTP", outs[i].status>>,
                         requests |-> i, sleeps |-> sleeps]
         ELSE IF outs[i].kind \in CaughtErrors
              THEN retry_loop(outs, i + 1, attempts, outs[i].kind,
                              Append(sleeps, BaseDelay * i))
              ELSE [result |-> "raise", code |-> 500,
                    detail |-> <<"Internal Server Error", outs[i].kind>>,
                    requests |-> i, sleeps |-> sleeps]

get_with_retries(outs, attempts) == retry_loop(outs, 1, attempts, NULL, <<>>)

\* the status code in f"External API HTTP {r.status_code}", 0 for the other texts
QuotedStatus(detail) == IF detail[1] = "External API HTTP" THEN detail[2] ELSE 0

\* every way r = await _get_with_retries(url) can end, over all upstream behaviours
FetchResults == {get_with_retries(outs, Attempts) : outs \in [1..Attempts -> Outcome]}

\* lines 74-79 / 128-132: the HTTPException the handler ends with when the call
\* raised or the 200 response is not an image; NoResp when the handler goes on
fetch_raises(got, ctype) ==
    IF got.result = "raise"
    THEN [code |-> got.code, detail |-> got.detail[1], cause |-> QuotedStatus(got.detail)]
    ELSE IF ~ContainsImage(ctype)
    THEN [NoResp EXCEPT !.code = 502, !.detail = "External API returned non-image"]
    ELSE NoResp

\* every way lines 74-79 / 128-132 can end, over all upstream behaviours
FetchEnds == {fetch_raises(got, ctype) : got \in FetchResults, ctype \in UpstreamTypes}

\* how a call that has not been made looks
NoGot == [result |-> "none", code |-> 0, detail |-> <<"">>, requests |-> 0, sleeps |-> <<>>]
NoFetch == [pc |-> "idle", attempts |-> 0, outs |-> <<>>, ctype |-> NULL, deadline |-> 0,
            got |-> NoGot, resp |-> NoResp]

\* ------------------------------------------------------------ routers/images.py
\* data_store.py: for i in range(1, 51)
NImages == 50
\* an Optional[int] / Optional[datetime] query parameter that was not sent
NoInt == 0
\* limit: int = Query(10, ..)
DefaultLimit == 10

SORT_FIELDS == {"created_at", "filename", "kind", "status", "id"}
SORT_ORDERS == {"asc", "desc"}

\* the place of f"img_{i}.png" among the file names as Python compares strings:
\* "img_1.png" < "img_10.png" < "img_19.png" < "img_2.png" ("." sorts before
\* the digits)
FilenameKey(i) == IF i < 10 THEN 100 * i ELSE 100 * (i \div 10) + (i % 10) + 1

\* the place of a kind or status among the three, as Python compares strings
StrRank(text) ==
    CASE text \in {"edge", "failed"} -> 1
      [] text \in {"grayscale", "processing"} -> 2
      [] text \in {"original", "ready"} -> 3

\* data_store.py lines 7-15; created_at in minutes after base
IMAGES ==
    [i \in 1..NImages |->
        [id |-> i,
         owner |-> IF i % 2 = 1 THEN "alice" ELSE "bob",
         filename |-> FilenameKey(i),
         kind |-> <<"original", "grayscale", "edge">>[(i % 3) + 1],
         status |-> <<"ready", "processing", "failed">>[(i % 3) + 1],
         created_at |-> 7 * i]]

\* x[sort_by]
SortKey(x, sort_by) ==
    CASE sort_by = "id" -> x.id
      [] sort_by = "created_at" -> x.created_at
      [] sort_by = "filename" -> x.filename
      [] sort_by = "kind" -> StrRank(x.kind)
      [] sort_by = "status" -> StrRank(x.status)

\* data.sort(key=.., reverse=..): a stable sort; with reverse the larger key
\* comes first and rows of equal key still keep their order
NotAfter(y, x, sort_by, reverse) ==
    IF reverse THEN SortKey(y, sort_by) >= SortKey(x, sort_by)
    ELSE SortKey(y, sort_by) <= SortKey(x, sort_by)

\* row x put into the sorted run t behind every row that is not after it
insert(t, x, sort_by, reverse) ==
    LET n == Cardinality({k \in 1..Len(t) : NotAfter(t[k], x, sort_by, reverse)})
    IN SubSeq(t, 1, n) \o <<x>> \o SubSeq(t, n + 1, Len(t))

\* rows data[lo..hi] put into t one after the other (the run of the front rows
\* is built before the rest goes in)
RECURSIVE insert_all(_, _, _, _, _, _)
insert_all(t, data, lo, hi, sort_by, reverse) ==
    IF lo > hi THEN t
    ELSE IF lo = hi THEN insert(t, data[lo], sort_by, reverse)
    ELSE LET mid == (lo + hi) \div 2
             front == insert_all(t, data, lo, mid, sort_by, reverse)
         IN IF Len(front) > 0 THEN insert_all(front, data, mid + 1, hi, sort_by, reverse)
            ELSE front

sort(data, sort_by, reverse) == insert_all(<<>>, data, 1, Len(data), sort_by, reverse)

\* lines 65-74: the five filters, each applied when its parameter is set
filter(data, q) ==
    SelectSeq(data, LAMBDA x :
        /\ q.owner # NULL => x.owner = q.owner
        /\ q.kind # NULL => x.kind = q.kind
        /\ q.status # NULL => x.status = q.status
        /\ q.created_after # NoInt => x.created_at >= q.created_after
        /\ q.created_before # NoInt => x.created_at <= q.created_before)

\* data[offset: offset + limit]
slice(data, offset, limit) ==
    SubSeq(data, offset + 1, IF offset + limit < Len(data) THEN offset + limit ELSE Len(data))

\* lines 41-44: page / per_page override limit and offset
normalize(q) ==
    IF q.page # NoInt \/ q.per_page # NoInt
    THEN LET p == IF q.page # NoInt THEN q.page ELSE 1
             pp == IF q.per_page # NoInt THEN q.per_page ELSE q.limit
         IN [limit |-> pp, offset |-> (p - 1) * pp]
    ELSE [limit |-> q.limit, offset |-> q.offset]

\* a last page computed from total instead of total - 1
last_page_off_floor(total, limit) == (total \div limit) * limit

\* line 129
last_page_off(total, limit) == ((total - 1) \div limit) * limit

\* lines 121-130: the Link header as the set of its entries
links(offset, limit, total) ==
    {[rel |-> "self", offset |-> offset, limit |-> limit]}
    \cup (IF offset + limit < total
           THEN {[rel |-> "next", offset |-> offset + limit, limit |-> limit]} ELSE {})
    \cup (IF offset > 0
           THEN {[rel |-> "prev", offset |-> IF offset - limit > 0 THEN offset - limit ELSE 0,
                  limit |-> limit]} ELSE {})
    \cup (IF total > 0
           THEN {[rel |-> "last", offset |-> last_page_off(total, limit), limit |-> limit]}
           ELSE {})

\* lines 40-133: the items (by id), X-Total-Count and Link of the response
list_images_response(q) ==
    LET n == normalize(q)
        sort_by == IF q.sort_by \in SORT_FIELDS THEN q.sort_by ELSE "created_at"
        order == IF q.order \in SORT_ORDERS THEN q.order ELSE "desc"
        data == filter(IMAGES, q)
        sorted == sort(data, sort_by, order = "desc")
        page_items == slice(sorted, n.offset, n.limit)
    IN [items |-> [i \in 1..Len(page_items) |-> page_items[i].id],
        total |-> Len(data),
        links |-> links(n.offset, n.limit, Len(data))]

NoQuery == [limit |-> DefaultLimit, offset |-> 0, page |-> NoInt, per_page |-> NoInt,
            owner |-> NULL, kind |-> NULL, status |-> NULL, created_after |-> NoInt,
            created_before |-> NoInt, sort_by |-> "created_at", order |-> "desc"]
NoListing == [pc |-> "idle", q |-> NoQuery, items |-> <<>>, total |-> 0, links |-> {}]

\* ---------------------------------------------------------------- scheduling
\* The three submission handlers are coroutines of one event loop whose bodies,
\* from the first write on, hold no await: one runs at a time.  The readers are
\* plain functions run on the thread pool: they run between any two steps.
Finished(q) == req[q].pc \in {"raised", "returned"}
Turn(r) == \A q \in 1..(r - 1) : Finished(q)

Init ==
    /\ jobs = <<>>
    /\ logs = <<>>
    /\ uploads = <<>>
    /\ processed = <<>>
    /\ req = [r \in Reqs |-> IdleReq]
    /\ obs = NoObs
    /\ fetch = NoFetch
    /\ listing = NoListing

\* ---------------------------------------------------------------- create_job
\* a handler that stores the upload before it looks at the content type
create_job_begin_save_first(r) ==
    /\ req[r].pc = "idle" /\ Turn(r)
    /\ \E u \in Users, op \in OpInputs, ct \in ContentTypes, fn \in Filenames :
         IF op \notin Ops
         THEN /\ req' = [req EXCEPT ![r] = [IdleReq EXCEPT !.handler = "create_job",
                            !.pc = "raised",
                            !.resp = [NoResp EXCEPT !.code = 422,
                                       !.detail = "String should match pattern"]]]
              /\ UNCHANGED uploads
         ELSE /\ uploads' = Put(uploads, <<"upload", fn>>, r)
              /\ IF ~IsImageType(ct)
                 THEN req' = [req EXCEPT ![r] = [IdleReq EXCEPT !.handler = "create_job",
                                  !.pc = "raised",
                                  !.resp = [NoResp EXCEPT !.code = 415,
                                             !.detail = "Only image/* uploads are supported"]]]
                 ELSE req' = [req EXCEPT ![r] = [IdleReq EXCEPT !.handler = "create_job",
                                  !.user = u, !.op = op, !.path = <<"upload", fn>>,
                                  !.ctype = ct, !.pc = "insert"]]
    /\ UNCHANGED <<jobs, logs, processed>> /\ obs' = NoObs /\ UNCHANGED <<fetch, listing>>

\* lines 160-167: parameters bound and validated (422 before the body runs),
\* content type checked
create_job_begin(r) ==
    /\ req[r].pc = "idle" /\ Turn(r)
    /\ \E u \in Users, op \in OpInputs, ct \in ContentTypes, fn \in Filenames :
         IF op \notin Ops
         THEN req' = [req EXCEPT ![r] = [IdleReq EXCEPT !.handler = "create_job",
                          !.pc = "raised",
                          !.resp = [NoResp EXCEPT !.code = 422,
                                     !.detail = "String should match pattern"]]]
         ELSE IF ~IsImageType(ct)
         THEN req' = [req EXCEPT ![r] = [IdleReq EXCEPT !.handler = "create_job",
                          !.pc = "raised",
                          !.resp = [NoResp EXCEPT !.code = 415,
                                     !.detail = "Only image/* uploads are supported"]]]
         ELSE req' = [req EXCEPT ![r] = [IdleReq EXCEPT !.handler = "create_job", !.user = u,
                          !.op = op, !.path = <<"upload", fn>>, !.ctype = ct,
                          !.pc = "save_original"]]
    /\ UNCHANGED <<jobs, logs, uploads, processed>> /\ obs' = NoObs /\ UNCHANGED <<fetch, listing>>

\* a handler that writes an audit entry for the upload before the row exists
create_job_save_original_logged(r) ==
    /\ At(r, "create_job", "save_original")
    /\ \/ /\ uploads' = Put(uploads, req[r].path, r)
          /\ log_action(req[r].user, FreshJobId, "upload", "stored")
          /\ Goto(r, "insert")
       \/ /\ Raise(r, 500, IoError)
          /\ UNCHANGED <<uploads, logs>>
    /\ UNCHANGED <<jobs, processed>> /\ obs' = NoObs /\ UNCHANGED <<fetch, listing>>

\* lines 170-172: original saved under the client's filename
create_job_save_original(r) ==
    /\ At(r, "create_job", "save_original")
    /\ \/ /\ uploads' = Put(uploads, req[r].path, r)
          /\ Goto(r, "insert")
       \/ /\ Raise(r, 500, IoError)
          /\ UNCHANGED uploads
    /\ UNCHANGED <<jobs, logs, processed>> /\ obs' = NoObs /\ UNCHANGED <<fetch, listing>>

\* lines 175-182: metadata row committed with status processing
create_job_insert(r) ==
    /\ At(r, "create_job", "insert")
    /\ \/ /\ jobs' = Put(jobs, FreshJobId,
                         ImageJob(req[r].user, req[r].path, req[r].ctype, NULL, req[r].op))
          /\ req' = [req EXCEPT ![r].pc = "process", ![r].job = FreshJobId]
       \/ /\ Raise(r, 500, DbError)
          /\ UNCHANGED jobs
    /\ UNCHANGED <<logs, uploads, processed>> /\ obs' = NoObs /\ UNCHANGED <<fetch, listing>>

\* lines 186-194: transform and out.save(processed_path); any exception goes to
\* the handler of line 210
create_job_process(r) ==
    /\ At(r, "create_job", "process")
    /\ \/ /\ processed' = Put(processed, <<"processed", req[r].job>>, uploads[req[r].path])
          /\ Goto(r, "commit_done")
       \/ /\ \E e \in ProcessErrors : req' = [req EXCEPT ![r].pc = "except", ![r].exc = e]
          /\ UNCHANGED processed
    /\ UNCHANGED <<jobs, logs, uploads>> /\ obs' = NoObs /\ UNCHANGED <<fetch, listing>>

\* lines 196-199: processed_path, size and status done in one commit; a failed
\* commit rolls back and expires the row, and raises into the handler of line 210
create_job_commit_done(r) ==
    /\ At(r, "create_job", "commit_done")
    /\ \/ /\ commit_done(req[r].job)
          /\ Goto(r, "log_success")
       \/ /\ req' = [req EXCEPT ![r].pc = "except", ![r].exc = DbError]
          /\ UNCHANGED jobs
    /\ UNCHANGED <<logs, uploads, processed>> /\ obs' = NoObs /\ UNCHANGED <<fetch, listing>>

\* lines 202-208 and 226: success log (its own commit), still inside the try
create_job_log_success(r) ==
    /\ At(r, "create_job", "log_success")
    /\ \/ /\ log_action(req[r].user, req[r].job, req[r].op, "width, height")
          /\ Return(r)
       \/ /\ req' = [req EXCEPT ![r].pc = "except", ![r].exc = DbError]
          /\ UNCHANGED logs
    /\ UNCHANGED <<jobs, uploads, processed>> /\ obs' = NoObs /\ UNCHANGED <<fetch, listing>>

\* lines 210-213: except Exception: status error, error_message = str(e), commit;
\* a failed commit leaves the handler with the new exception
create_job_except(r) ==
    /\ At(r, "create_job", "except")
    /\ \/ /\ commit_error(req[r].job, req[r].exc)
          /\ Goto(r, "log_error")
       \/ /\ Raise(r, 500, DbError)
          /\ UNCHANGED jobs
    /\ UNCHANGED <<logs, uploads, processed>> /\ obs' = NoObs /\ UNCHANGED <<fetch, listing>>

\* an except branch that answers with the job id once the error is recorded
create_job_log_error_returns(r) ==
    /\ At(r, "create_job", "log_error")
    /\ \/ /\ log_action(req[r].user, req[r].job, "error", req[r].exc)
          /\ Return(r)
       \/ /\ Raise(r, 500, DbError)
          /\ UNCHANGED logs
    /\ UNCHANGED <<jobs, uploads, processed>> /\ obs' = NoObs /\ UNCHANGED <<fetch, listing>>

\* lines 216-224: error log (its own commit), then HTTPException(500)
create_job_log_error(r) ==
    /\ At(r, "create_job", "log_error")
    /\ \/ /\ log_action(req[r].user, req[r].job, "error", req[r].exc)
          /\ Raise(r, 500, "Processing failed")
       \/ /\ Raise(r, 500, DbError)
          /\ UNCHANGED logs
    /\ UNCHANGED <<jobs, uploads, processed>> /\ obs' = NoObs /\ UNCHANGED <<fetch, listing>>

create_job(r) ==
    \/ create_job_begin(r)
    \/ create_job_save_original(r)
    \/ create_job_insert(r)
    \/ create_job_process(r)
    \/ create_job_commit_done(r)
    \/ create_job_log_success(r)
    \/ create_job_except(r)
    \/ create_job_log_error(r)

\* ------------------------------------------------- fetch_random_image, generate_qrcode
\* a handler that records a failed fetch as a job in status error with its
\* audit entry
external_fetch_error_job(r, handler, opts) ==
    /\ req[r].pc = "idle" /\ Turn(r)
    /\ \E u \in Users, op \in opts, ends \in FetchEnds :
         IF ends # NoResp
         THEN /\ jobs' = Put(jobs, FreshJobId,
                             [ImageJob(u, NoPath, NULL, handler, op) EXCEPT
                                 !.status = "error",
                                 !.error_message = ends.detail])
              /\ log_action(u, FreshJobId, "error", ends.detail)
              /\ req' = [req EXCEPT ![r] = [IdleReq EXCEPT !.handler = handler, !.pc = "raised",
                               !.job = FreshJobId, !.resp = ends]]
         ELSE /\ req' = [req EXCEPT ![r] = [IdleReq EXCEPT !.handler = handler, !.user = u,
                               !.op = op, !.pc = "save_original"]]
              /\ UNCHANGED <<jobs, logs>>
    /\ UNCHANGED <<uploads, processed>> /\ obs' = NoObs /\ UNCHANGED <<fetch, listing>>

\* lines 73-79 / 126-132: the upstream call and the content-type check; nothing
\* is persisted yet
external_fetch(r, handler, opts) ==
    /\ req[r].pc = "idle" /\ Turn(r)
    /\ \E u \in Users, op \in opts, ends \in FetchEnds :
         IF ends # NoResp
         THEN req' = [req EXCEPT ![r] = [IdleReq EXCEPT !.handler = handler, !.pc = "raised",
                          !.resp = ends]]
         ELSE req' = [req EXCEPT ![r] = [IdleReq EXCEPT !.handler = handler, !.user = u,
                          !.op = op, !.pc = "save_original"]]
    /\ UNCHANGED <<jobs, logs, uploads, processed>> /\ obs' = NoObs /\ UNCHANGED <<fetch, listing>>

\* lines 82-84 / 135-137: original written under a fresh name
external_save_original(r, handler, prefix) ==
    /\ At(r, handler, "save_original")
    /\ \/ /\ uploads' = Put(uploads, FreshUploadPath(prefix), r)
          /\ req' = [req EXCEPT ![r].pc = "insert", ![r].path = FreshUploadPath(prefix)]
       \/ /\ Raise(r, 500, IoError)
          /\ UNCHANGED uploads
    /\ UNCHANGED <<jobs, logs, processed>> /\ obs' = NoObs /\ UNCHANGED <<fetch, listing>>

\* lines 87-94 / 139-146: job row committed with status processing
external_insert(r, handler, mime, source) ==
    /\ At(r, handler, "insert")
    /\ \/ /\ jobs' = Put(jobs, FreshJobId, ImageJob(req[r].user, req[r].path, mime, source, req[r].op))
          /\ req' = [req EXCEPT ![r].pc = "process", ![r].job = FreshJobId]
       \/ /\ Raise(r, 500, DbError)
          /\ UNCHANGED jobs
    /\ UNCHANGED <<logs, uploads, processed>> /\ obs' = NoObs /\ UNCHANGED <<fetch, listing>>

\* lines 97-106 / 148-150: the processed file is produced; there is no try
\* around it, an exception leaves the handler
external_process(r, handler, errors) ==
    /\ At(r, handler, "process")
    /\ \/ /\ processed' = Put(processed, <<"processed", req[r].job>>, r)
          /\ Goto(r, "commit_done")
       \/ /\ \E e \in errors : Raise(r, 500, e)
          /\ UNCHANGED processed
    /\ UNCHANGED <<jobs, logs, uploads>> /\ obs' = NoObs /\ UNCHANGED <<fetch, listing>>

\* lines 109-114 / 152-158: status done committed, then the image is built for
\* the response (generate_qrcode decodes the upstream bytes only here)
external_commit_done(r, handler, errors) ==
    /\ At(r, handler, "commit_done")
    /\ \/ /\ commit_done(req[r].job)
          /\ Return(r) \/ \E e \in errors : Raise(r, 500, e)
       \/ /\ Raise(r, 500, DbError)
          /\ UNCHANGED jobs
    /\ UNCHANGED <<logs, uploads, processed>> /\ obs' = NoObs /\ UNCHANGED <<fetch, listing>>

fetch_random_image(r) ==
    \/ external_fetch(r, "fetch_random_image", Ops \cup {NULL})
    \/ external_save_original(r, "fetch_random_image", "ext")
    \/ external_insert(r, "fetch_random_image", "image/jpeg", "picsum")
    \/ external_process(r, "fetch_random_image", ProcessErrors \cup {IoError})
    \/ external_commit_done(r, "fetch_random_image", {})

generate_qrcode(r) ==
    \/ external_fetch(r, "generate_qrcode", {NULL})
    \/ external_save_original(r, "generate_qrcode", "qr")
    \/ external_insert(r, "generate_qrcode", "image/png", "qrserver")
    \/ external_process(r, "generate_qrcode", {IoError})
    \/ external_commit_done(r, "generate_qrcode", {"cannot identify image file"})

\* ---------------------------------------------------------------- auth
\* get_current_user: the token's subject and role; tokens are signed by
\* _create_token from _users, so the role is the user's role there
get_current_user(u) == [username |-> u, role |-> users_role(u)]

\* a dependency that lets every known role through
require_role_any(required, user) == user.role \in {required, "user"}

\* require_role(required): the dependency passes iff user.role == required
require_role(required, user) == user.role = required

\* ---------------------------------------------------------------- readers
\* the ownership test with an admin override
job_visible_or_admin(job_id, user) ==
    job_id \in DOMAIN jobs /\ (jobs[job_id].user_id = user.username \/ user.role = "admin")

\* get_meta lines 288-290 and get_file lines 311-313: db.get, then the check
\* that ends both handlers with 404 "Not Found"
job_visible(job_id, user) ==
    job_id \in DOMAIN jobs /\ jobs[job_id].user_id = user.username

\* a get_meta that tells the caller the job is someone else's
get_meta_response_forbidden(job_id, user) ==
    IF job_id \notin DOMAIN jobs
    THEN [code |-> 404, detail |-> "Not Found", status |-> NULL, processed_path |-> NoPath]
    ELSE IF jobs[job_id].user_id # user.username
    THEN [code |-> 403, detail |-> "forbidden", status |-> NULL, processed_path |-> NoPath]
    ELSE [code |-> 200, detail |-> "ok", status |-> jobs[job_id].status,
          processed_path |-> IF jobs[job_id].status = "done"
                             THEN jobs[job_id].processed_path ELSE NoPath]

\* get_meta lines 288-302: status code, detail and the fields of the body
get_meta_response(job_id, user) ==
    IF ~job_visible(job_id, user)
    THEN [code |-> 404, detail |-> "Not Found", status |-> NULL, processed_path |-> NoPath]
    ELSE [code |-> 200, detail |-> "ok", status |-> jobs[job_id].status,
          processed_path |-> IF jobs[job_id].status = "done"
                             THEN jobs[job_id].processed_path ELSE NoPath]

\* get_file lines 311-319, kind in {processed, original}
get_file_response(job_id, kind, user) ==
    IF ~job_visible(job_id, user)
    THEN [code |-> 404, detail |-> "Not Found"]
    ELSE LET path == IF kind = "processed" THEN jobs[job_id].processed_path
                     ELSE jobs[job_id].original_path
             exists == IF kind = "processed" THEN path \in DOMAIN processed
                       ELSE path \in DOMAIN uploads
         IN IF path = NoPath \/ ~exists
            THEN [code |-> 404, detail |-> "file missing"]
            ELSE [code |-> 200, detail |-> "ok"]

RECURSIVE Reverse(_)
Reverse(s) == IF s = <<>> THEN <<>> ELSE Append(Reverse(Tail(s)), Head(s))

Take(s, n) == SubSeq(s, 1, IF n < Len(s) THEN n ELSE Len(s))

\* order_by(timestamp.desc()) [.filter(action == action)] .limit(limit).all();
\* the server clock does not run backwards, so newest first is last inserted first
query_logs(rows, action, limit) ==
    Take(SelectSeq(Reverse(rows), LAMBDA row : action = NULL \/ row.action = action), limit)

\* a my_logs that forgets the filter on the caller
my_logs_rows_all(user, action, limit) == query_logs(logs, action, limit)

\* my_logs lines 332-335
my_logs_rows(user, action, limit) ==
    query_logs(SelectSeq(logs, LAMBDA row : row.user_id = user.username), action, limit)

\* admin_logs lines 234-240: Depends(require_role("admin")), then the query
admin_logs_response(user, action, limit) ==
    IF ~require_role("admin", user)
    THEN [code |-> 403, detail |-> "forbidden", rows |-> <<>>]
    ELSE [code |-> 200, detail |-> "ok", rows |-> query_logs(logs, action, limit)]

Limits == {1, MaxLimit}
ActionFilters == {NULL, "error"}

\* a reader session is one read, or a get_meta that found the job followed at
\* once by a read of the logs by the same caller
FirstRead == obs.op = "none"
FollowUp(u) == obs.op = "get_meta" /\ obs.code = 200 /\ obs.user = u

\* what the reader had seen of the job right before it asks for the logs
Prior == IF obs.op = "get_meta"
         THEN [job_id |-> obs.job_id, status |-> obs.status] ELSE NoPrior

get_meta ==
    /\ FirstRead
    /\ \E u \in Users, j \in DOMAIN jobs \cup {NoSuchJob} :
         LET resp == get_meta_response(j, get_current_user(u)) IN
         obs' = [NoObs EXCEPT !.op = "get_meta", !.user = u, !.job_id = j,
                   !.code = resp.code, !.detail = resp.detail, !.status = resp.status,
                   !.processed_path = resp.processed_path]
    /\ UNCHANGED <<jobs, logs, uploads, processed, req, fetch, listing>>

get_file ==
    /\ FirstRead
    /\ \E u \in Users, j \in DOMAIN jobs \cup {NoSuchJob}, kind \in {"processed", "original"} :
         LET resp == get_file_response(j, kind, get_current_user(u)) IN
         obs' = [NoObs EXCEPT !.op = "get_file", !.user = u, !.job_id = j,
                   !.code = resp.code, !.detail = resp.detail, !.filter = kind]
    /\ UNCHANGED <<jobs, logs, uploads, processed, req, fetch, listing>>

my_logs ==
    /\ \E u \in Users, action \in ActionFilters, limit \in Limits :
         /\ FirstRead \/ FollowUp(u)
         /\ obs' = [NoObs EXCEPT !.op = "my_logs", !.user = u, !.code = 200, !.detail = "ok",
                      !.rows = my_logs_rows(get_current_user(u), action, limit),
                      !.filter = action, !.limit = limit, !.prior = Prior]
    /\ UNCHANGED <<jobs, logs, uploads, processed, req, fetch, listing>>

admin_logs ==
    /\ \E u \in Users, action \in ActionFilters, limit \in Limits :
         LET resp == admin_logs_response(get_current_user(u), action, limit) IN
         /\ FirstRead \/ FollowUp(u)
         /\ obs' = [NoObs EXCEPT !.op = "admin_logs", !.user = u, !.code = resp.code,
                      !.detail = resp.detail, !.rows = resp.rows,
                      !.filter = action, !.limit = limit, !.prior = Prior]
    /\ UNCHANGED <<jobs, logs, uploads, processed, req, fetch, listing>>

Read == get_meta \/ get_file \/ my_logs \/ admin_logs

\* ---------------------------------------------------------------- the remote fetch alone
\* Largest attempts argument a call of _get_with_retries is given.
MaxAttempts == 3

\* The time, in tenths of a second from the start of the fetch, by which the
\* caller wants its answer.  _get_with_retries has no parameter for it (timeout
\* bounds one request, not the call) and the handlers ignore query parameters
\* they do not declare.
Deadlines == {3, 10, 1000}

\* r = await _get_with_retries(url, attempts=attempts) and the content-type
\* check that follows it, against an upstream that yields outs[i] on request i
\* and sends ctype with a 200
remote_fetch ==
    /\ fetch.pc = "idle"
    /\ \E attempts \in 0..MaxAttempts, ctype \in UpstreamTypes, deadline \in Deadlines :
         \E outs \in [1..attempts -> Outcome] :
            fetch' = [pc |-> "done", attempts |-> attempts, outs |-> outs, ctype |-> ctype,
                      deadline |-> deadline, got |-> get_with_retries(outs, attempts),
                      resp |-> fetch_raises(get_with_retries(outs, attempts), ctype)]
    /\ UNCHANGED <<jobs, logs, uploads, processed, req, obs, listing>>

\* ---------------------------------------------------------------- specifications
Submit(r) == create_job(r) \/ fetch_random_image(r) \/ generate_qrcode(r)

Next == \E r \in Reqs : Submit(r)

Spec == Init /\ [][Next]_vars

ReadNext ==
    \/ \E r \in 1..MaxReadSubmits : Submit(r)
    \/ Read

ReadSpec == Init /\ [][ReadNext]_vars

\* ---------------------------------------------------------------- the readers alone
\* Number of create_job requests that ran to their audit entry before the
\* readers are called.
MaxLogs == 3

LogActions == Ops \cup {"error"}

\* the row of job j once create_job, called by u, has written the audit entry
\* of action a: done under op a, or error (of an upload PIL cannot read)
FinishedJob(u, j, a) ==
    IF a = "error"
    THEN [ImageJob(u, <<"upload", "a.png">>, "image/png", NULL, "grayscale") EXCEPT
              !.status = "error", !.error_message = "cannot identify image file"]
    ELSE [ImageJob(u, <<"upload", "a.png">>, "image/png", NULL, a) EXCEPT
              !.processed_path = <<"processed", j>>, !.has_size = TRUE, !.status = "done"]

\* the store after n create_job requests, request k made by who[k] and ended
\* with the audit entry of action what[k]
QueryInit ==
    \E n \in 0..MaxLogs :
        \E who \in [1..n -> Users], what \in [1..n -> LogActions] :
            /\ jobs = [j \in 1..n |-> FinishedJob(who[j], j, what[j])]
            /\ logs = [k \in 1..n |->
                         [id |-> k, user_id |-> who[k], job_id |-> k, action |-> what[k],
                          details |-> IF what[k] = "error" THEN "cannot identify image file"
                                      ELSE "width, height"]]
            /\ uploads = [x \in {<<"upload", "a.png">> : k \in 1..n} |-> n]
            /\ processed = [x \in {<<"processed", j>> : j \in {k \in 1..n : what[k] # "error"}}
                               |-> x[2]]
            /\ req = [r \in Reqs |-> IdleReq]
            /\ obs = NoObs
            /\ fetch = NoFetch
            /\ listing = NoListing

QuerySpec == QueryInit /\ [][Read]_vars

\* ---------------------------------------------------------------- list_images alone
\* Largest limit and per_page a query carries.
MaxPer == 4
\* Largest offset a query carries.
MaxOffset == 9
\* Largest page a query carries.
MaxPage == 3

\* the filters, sort fields and orders the queries carry: set or not, known or
\* not; with owner alice and kind edge 8 rows are left, so that the queries
\* reach pages before, at and beyond the last one, and with kind edge and
\* status ready none
Filters ==
    [owner : {NULL, "alice"}, kind : {NULL, "edge"}, status : {NULL, "ready"},
     created_after : {NoInt, 140}, created_before : {NoInt, 280}]
Sortings == [sort_by : {"filename", "kind", "colour"}, order : {"asc", "up"}]

\* limit/offset style, or page/per_page style (either of the two may be left
\* out; limit is then the per_page)
Pagings ==
    [limit : 1..MaxPer, offset : 0..MaxOffset, page : {NoInt}, per_page : {NoInt}]
    \cup {pg \in [limit : 1..MaxPer, offset : {0}, page : 0..MaxPage, per_page : 0..MaxPer] :
              pg.page # NoInt \/ pg.per_page # NoInt}

Query(pg, f, st) ==
    [limit |-> pg.limit, offset |-> pg.offset, page |-> pg.page, per_page |-> pg.per_page,
     owner |-> f.owner, kind |-> f.kind, status |-> f.status,
     created_after |-> f.created_after, created_before |-> f.created_before,
     sort_by |-> st.sort_by, order |-> st.order]

\* GET /v1/images/ with the query parameters q
list_images ==
    /\ listing.pc = "idle"
    /\ \E pg \in Pagings, f \in Filters, st \in Sortings :
         LET q == Query(pg, f, st)
             resp == list_images_response(q)
         IN listing' = [pc |-> "done", q |-> q, items |-> resp.items, total |-> resp.total,
                        links |-> resp.links]
    /\ UNCHANGED <<jobs, logs, uploads, processed, req, obs, fetch>>

PageSpec == Init /\ [][list_images]_vars

RetryNext == remote_fetch

RetrySpec == Init /\ [][RetryNext]_vars

\* ---------------------------------------------------------------- properties
\* the audit entries of job j, oldest first
Trail(j) == SelectSeq(logs, LAMBDA row : row.job_id = j)

\* the action the audit entry of j's terminal transition carries
TerminalAction(j) == IF jobs[j].status = "done" THEN jobs[j].op ELSE "error"

NonEmpty(text) == text \notin {NULL, ""}

\* C1: once a job's persisted status is Done or Error, no later step of any
\* submission changes it (terminal states are absorbing), also when a step
\* after the status write fails.
C1_TerminalAbsorbing ==
    [][\A j \in DOMAIN jobs :
          jobs[j].status \in Terminal => jobs'[j].status = jobs[j].status]_vars

\* C2: when a submission has returned or raised after persisting its job row,
\* the job's persisted status is Done or Error.
C2_FinishedJobIsTerminal ==
    \A r \in Reqs :
        Finished(r) /\ req[r].job # NoSuchJob => jobs[req[r].job].status \in Terminal

\* C3: in every persisted state of every job, processed_path is non-empty if
\* and only if status is Done.
C3_ProcessedPathIffDone ==
    \A j \in DOMAIN jobs : (jobs[j].processed_path # NoPath) <=> (jobs[j].status = "done")

\* C4: in every persisted state of every job, error_message is non-empty if and
\* only if status is Error, whatever the text of the exception.
C4_ErrorMessageIffError ==
    \A j \in DOMAIN jobs : NonEmpty(jobs[j].error_message) <=> (jobs[j].status = "error")

\* C5: a terminal transition and its audit entry persist together: once the
\* submission is over, its job is terminal if and only if the log holds the
\* entry of that transition.
C5_UpdateAndAuditAtomic ==
    \A r \in Reqs :
        Finished(r) /\ req[r].job # NoSuchJob =>
            LET j == req[r].job IN
            (jobs[j].status \in Terminal) <=>
                (\E i \in 1..Len(logs) : logs[i].job_id = j /\ logs[i].action = TerminalAction(j))

\* C6: a reader never gets status Done with an empty processed_path from
\* get_meta, and never gets a terminal status from get_meta and then, asking for
\* all the log entries, a log without an entry of that job.
C6_ReaderSeesWholeTransition ==
    /\ obs.op = "get_meta" /\ obs.code = 200 /\ obs.status = "done"
           => obs.processed_path # NoPath
    /\ obs.op \in {"my_logs", "admin_logs"} /\ obs.code = 200
         /\ obs.prior.status \in Terminal /\ obs.filter = NULL /\ obs.limit = MaxLimit
           => \E i \in 1..Len(obs.rows) : obs.rows[i].job_id = obs.prior.job_id

\* C7: for every job in a terminal status whose submission is over, the audit
\* entries of the job are non-empty and the newest carries the action of the
\* terminal status (the operation for Done, "error" for Error).
C7_TrailEndsInTerminalAction ==
    \A r \in Reqs :
        Finished(r) /\ req[r].job # NoSuchJob /\ jobs[req[r].job].status \in Terminal =>
            LET j == req[r].job IN
            /\ Trail(j) # <<>>
            /\ Trail(j)[Len(Trail(j))].action = TerminalAction(j)

\* what get_meta / get_file answered, as the caller can tell responses apart
Answer(o) == [code |-> o.code, detail |-> o.detail, status |-> o.status,
              processed_path |-> o.processed_path]

\* the answer of the same handler, to the same caller, for an id that no job has
AnswerForNoSuchJob(o) ==
    IF o.op = "get_meta"
    THEN get_meta_response(NoSuchJob, get_current_user(o.user))
    ELSE [code |-> get_file_response(NoSuchJob, o.filter, get_current_user(o.user)).code,
          detail |-> get_file_response(NoSuchJob, o.filter, get_current_user(o.user)).detail,
          status |-> NULL, processed_path |-> NoPath]

ReadOfJob == obs.op \in {"get_meta", "get_file"} /\ obs.job_id \in DOMAIN jobs

\* C8: to a caller who is neither the owner nor an admin, get_meta and get_file
\* answer for an existing job of another user exactly as for an id no job has.
C8_NotFoundIndistinguishable ==
    ReadOfJob /\ jobs[obs.job_id].user_id # obs.user /\ users_role(obs.user) # "admin"
        => Answer(obs) = AnswerForNoSuchJob(obs)

C8_Witness ==
    /\ ReadOfJob /\ obs.user = "alice" /\ jobs[obs.job_id].user_id = "admin"
    /\ jobs[obs.job_id].status = "done"
    /\ obs.code = 404

\* access is granted when the handler gets past its "Not Found" check
Granted(o) == ~(o.code = 404 /\ o.detail = "Not Found")

\* C9 as stated: get_meta and get_file grant access if and only if the caller is
\* the job's owner or holds the admin role.
C9_ReadableByOwnerOrAdmin ==
    ReadOfJob => (Granted(obs) <=> (jobs[obs.job_id].user_id = obs.user
                                      \/ users_role(obs.user) = "admin"))

\* C9 amended: get_meta and get_file grant access if and only if the caller is
\* the job's owner; the admin role gives no access to another user's job.
C9_ReadableByOwnerOnly ==
    ReadOfJob => (Granted(obs) <=> jobs[obs.job_id].user_id = obs.user)

C9_Witness ==
    /\ ReadOfJob /\ obs.user = "admin" /\ jobs[obs.job_id].user_id = "alice"
    /\ ~Granted(obs)

\* C10: admin_logs succeeds, with the queried entries of all users, if and only
\* if the caller's role is admin; any other caller gets 403 and no entry.
C10_AuditRequiresAdmin ==
    obs.op = "admin_logs" =>
        IF users_role(obs.user) = "admin"
        THEN obs.code = 200 /\ obs.rows = query_logs(logs, obs.filter, obs.limit)
        ELSE obs.code = 403 /\ obs.detail = "forbidden" /\ obs.rows = <<>>

C10_Witness ==
    /\ obs.op = "admin_logs" /\ obs.user = "alice" /\ obs.code = 403
    /\ logs # <<>>

\* ---------------------------------------------------------------- submissions
\* the persisted state: both tables and both directories
persisted == <<jobs, logs, uploads, processed>>

\* request r ends in this step, raised with one of the codes
RaisedNow(r, codes) ==
    req[r].pc = "idle" /\ req'[r].pc = "raised" /\ req'[r].resp.code \in codes

External == {"fetch_random_image", "generate_qrcode"}

C13_RejectionLeavesNoTrace ==
    [][\A r \in Reqs :
          RaisedNow(r, {415, 422}) => req'[r].job = NoSuchJob /\ UNCHANGED persisted]_vars

C13_Witness ==
    /\ \E r \in Reqs : req[r].pc = "raised" /\ req[r].resp.code = 415
    /\ \E r \in Reqs : req[r].pc = "raised" /\ req[r].resp.code = 422
    /\ jobs = <<>> /\ logs = <<>> /\ uploads = <<>> /\ processed = <<>>

\* C14: two submissions by distinct owners that both ended leave two distinct
\* jobs whose original and processed files are pairwise distinct and hold the
\* payload of their own submission, also for uploads that declare the same
\* filename.
C14_BlobsIsolated ==
    \A r1, r2 \in Reqs :
        /\ r1 # r2 /\ Finished(r1) /\ Finished(r2)
        /\ req[r1].job # NoSuchJob /\ req[r2].job # NoSuchJob
        /\ jobs[req[r1].job].status = "done" /\ jobs[req[r2].job].status = "done"
        /\ jobs[req[r1].job].user_id # jobs[req[r2].job].user_id
        => LET j1 == jobs[req[r1].job]
               j2 == jobs[req[r2].job]
           IN /\ req[r1].job # req[r2].job
              /\ j1.original_path # j2.original_path
              /\ j1.processed_path # j2.processed_path
              /\ uploads[j1.original_path] = r1 /\ uploads[j2.original_path] = r2
              /\ processed[j1.processed_path] = r1 /\ processed[j2.processed_path] = r2

\* ---------------------------------------------------------------- the fetcher
Fetched == fetch.pc = "done"

\* a retryable failure as the contract has it: 429, any 5xx, a connection
\* failure or a read timeout
RetryableFailure(o) ==
    o.kind # "response" \/ o.status = 429 \/ (o.status >= 500 /\ o.status <= 599)

\* a hard failure as the contract has it: any other non-200 status
HardFailure(o) == o.kind = "response" /\ o.status # 200 /\ ~RetryableFailure(o)

\* a failure after which the loop goes on to the next attempt
Retried(o) == o.kind \in CaughtErrors \/ (o.kind = "response" /\ o.status \in Retryable)

\* attempt i was made
Made(i) == i >= 1 /\ i <= fetch.got.requests

\* the text of the failure names what attempt o yielded
CarriesCause(detail, o) ==
    IF o.kind = "response"
    THEN detail[1] = "External API HTTP" /\ detail[2] = o.status
    ELSE detail[1] = "External API network error" /\ detail[2] = o.kind

RECURSIVE SumTo(_, _)
SumTo(s, n) == IF n = 0 THEN 0 ELSE SumTo(s, n - 1) + s[n]

\* C15: when every one of the n attempts yields a retryable failure, the fetch
\* fails after exactly n requests and the waits are exactly BaseDelay*1 ..
\* BaseDelay*(n-1), none after the last attempt.
C15_ExhaustionWaits ==
    Fetched /\ fetch.attempts >= 1
      /\ (\A i \in 1..fetch.attempts : RetryableFailure(fetch.outs[i]))
        => /\ fetch.got.result = "raise"
           /\ fetch.got.requests = fetch.attempts
           /\ Len(fetch.got.sleeps) = fetch.attempts - 1
           /\ \A k \in 1..Len(fetch.got.sleeps) : fetch.got.sleeps[k] = BaseDelay * k

\* C16: when the first k-1 attempts yield retryable failures and attempt k
\* yields a 200, the fetch returns that response after exactly k requests, with
\* k-1 retryable failures (each followed by its wait) before the success.
C16_RetryThenSuccess ==
    Fetched =>
        \A k \in 1..fetch.attempts :
            /\ \A i \in 1..(k - 1) : RetryableFailure(fetch.outs[i])
            /\ fetch.outs[k] = [kind |-> "response", status |-> 200]
            => /\ fetch.got.result = "return"
               /\ fetch.got.requests = k
               /\ Len(fetch.got.sleeps) = k - 1

\* C17: an attempt that yields a hard failure (a non-200 status other than 429
\* and 5xx), or a 200 whose content type is not an image, is the last request
\* of the fetch: the fetch fails at once and no wait follows the attempt.
C17_HardFailureNotRetried ==
    Fetched =>
        \A i \in 1..fetch.attempts :
            /\ Made(i) /\ HardFailure(fetch.outs[i])
                 => /\ fetch.got.result = "raise" /\ fetch.resp.code = 502
                    /\ fetch.got.requests = i
                    /\ Len(fetch.got.sleeps) = i - 1
            /\ Made(i) /\ fetch.outs[i] = [kind |-> "response", status |-> 200]
                 /\ ~ContainsImage(fetch.ctype)
                 => /\ fetch.resp.code = 502
                    /\ fetch.resp.detail = "External API returned non-image"
                    /\ fetch.got.requests = i
                    /\ Len(fetch.got.sleeps) = i - 1

C17_Witness ==
    /\ Fetched /\ fetch.attempts = Attempts
    /\ fetch.outs[1].kind = "ReadTimeout"
    /\ fetch.outs[2] = [kind |-> "response", status |-> 404]
    /\ fetch.got.requests = 2 /\ fetch.got.sleeps = <<BaseDelay>>
    /\ fetch.resp.code = 502 /\ fetch.resp.cause = 404

\* C18: when the fetch gives up after maxAttempts failures that were retried,
\* the failure it raises names what the last attempt yielded (the status code
\* or the class of the network error).
C18_LastCauseSurfaced ==
    Fetched /\ fetch.attempts >= 1
      /\ (\A i \in 1..fetch.attempts : Retried(fetch.outs[i]))
        => /\ fetch.got.result = "raise"
           /\ CarriesCause(fetch.got.detail, fetch.outs[fetch.attempts])

\* C19: no attempt is started once the caller's deadline has passed: the waits
\* made before a request add up to no more than the deadline; and a fetch that
\* slept past the deadline ends with DeadlineExceeded.
C19_DeadlineStopsFetch ==
    Fetched =>
        /\ \A k \in 1..fetch.got.requests :
               SumTo(fetch.got.sleeps, k - 1) <= fetch.deadline
        /\ SumTo(fetch.got.sleeps, Len(fetch.got.sleeps)) > fetch.deadline
               => fetch.got.detail = <<"DeadlineExceeded">>

\* ---------------------------------------------------------------- the audit log
\* C20: the audit log is append-only: every step keeps every entry already
\* written, with its id, job_id, user_id, action and details, deletes none, and entry
\* ids increase in the order of insertion.
C20_AuditAppendOnly ==
    [][/\ Len(logs') >= Len(logs)
       /\ \A i \in 1..Len(logs) : logs'[i] = logs[i]
       /\ \A i \in 1..(Len(logs') - 1) : logs'[i].id < logs'[i + 1].id]_vars

C20_Witness ==
    /\ Len(logs) = MaxSubmits
    /\ logs[1].action = "error" /\ logs[Len(logs)].action \in Ops
    /\ logs[1].job_id # logs[Len(logs)].job_id
    /\ \A r \in Reqs : Finished(r)

\* ---------------------------------------------------------------- job rows
\* the columns of a job row that say what the job is and whose it is
Identity(row) == [user_id |-> row.user_id, original_path |-> row.original_path,
                  mime_type |-> row.mime_type, source |-> row.source, op |-> row.op]

\* C21: once a job row is created no step changes its id, owner, original_path,
\* mime_type or params, and no step removes the row; only status,
\* processed_path, error_message and the size are written afterwards.
C21_IdentityImmutable ==
    [][\A j \in DOMAIN jobs :
          j \in DOMAIN jobs' /\ Identity(jobs'[j]) = Identity(jobs[j])]_vars

C21_Witness ==
    \E j1, j2 \in DOMAIN jobs :
        /\ jobs[j1].status = "error" /\ jobs[j1].user_id = "alice"
        /\ jobs[j1].error_message = "cannot identify image file"
        /\ jobs[j2].status = "done" /\ jobs[j2].source = "picsum"
        /\ jobs[j2].processed_path # NoPath

\* C22: a call of _get_with_retries makes at most attempts requests and ends in
\* one of two ways: it returns a response whose status is 200, or it raises a
\* 502; for every attempts >= 0 and every sequence of upstream outcomes.
C22_ReturnsOkOrRaises502 ==
    Fetched =>
        /\ fetch.got.requests <= fetch.attempts
        /\ \/ /\ fetch.got.result = "return"
              /\ Made(fetch.got.requests)
              /\ fetch.outs[fetch.got.requests] = [kind |-> "response", status |-> 200]
           \/ /\ fetch.got.result = "raise" /\ fetch.got.code = 502

\* C23: every audit entry names a job row that is persisted, and the row's
\* owner is the entry's user_id; no entry exists for a job that was not created.
C23_AuditNamesOwnJob ==
    \A i \in 1..Len(logs) :
        /\ logs[i].job_id \in DOMAIN jobs
        /\ jobs[logs[i].job_id].user_id = logs[i].user_id

C23_Witness ==
    /\ Len(logs) = 2
    /\ logs[1].user_id = "alice" /\ logs[2].user_id = "admin"
    /\ logs[1].action = "error" /\ logs[2].action = "edge"
    /\ Cardinality(DOMAIN jobs) = 2

\* ---------------------------------------------------------------- my_logs
\* C24: my_logs returns only entries whose user_id is the caller's username, at
\* most limit of them, and under an action filter only entries of that action.
C24_MyLogsOnlyOwn ==
    obs.op = "my_logs" =>
        /\ Len(obs.rows) <= obs.limit
        /\ \A i \in 1..Len(obs.rows) :
              /\ obs.rows[i].user_id = obs.user
              /\ obs.filter # NULL => obs.rows[i].action = obs.filter
              /\ \E k \in 1..Len(logs) : logs[k] = obs.rows[i]

C24_Witness ==
    /\ obs.op = "my_logs" /\ obs.user = "alice" /\ obs.filter = "error" /\ obs.limit = 1
    /\ Len(logs) = 3
    /\ logs[1].user_id = "alice" /\ logs[1].action = "error"
    /\ logs[2].user_id = "alice" /\ logs[2].action = "error"
    /\ logs[3].user_id = "admin" /\ logs[3].action = "error"
    /\ obs.rows = <<logs[2]>>

\* ---------------------------------------------------------------- list_images
Listed == listing.pc = "done"

\* the limit and offset the response was built with, as its rel="self" link
\* states them
SelfLink == CHOOSE l \in listing.links : l.rel = "self"

\* the ids of the rows that pass the filters of the query
Matching ==
    {i \in 1..NImages :
        /\ listing.q.owner # NULL => IMAGES[i].owner = listing.q.owner
        /\ listing.q.kind # NULL => IMAGES[i].kind = listing.q.kind
        /\ listing.q.status # NULL => IMAGES[i].status = listing.q.status
        /\ listing.q.created_after # NoInt => IMAGES[i].created_at >= listing.q.created_after
        /\ listing.q.created_before # NoInt => IMAGES[i].created_at <= listing.q.created_before}

\* row y comes before row x in the order the query asks for (an unknown field
\* means created_at, an unknown order desc); rows of equal key stay in the
\* order of the store
Precedes(y, x) ==
    LET by == IF listing.q.sort_by \in SORT_FIELDS THEN listing.q.sort_by ELSE "created_at"
        ky == SortKey(IMAGES[y], by)
        kx == SortKey(IMAGES[x], by)
    IN IF ky = kx THEN y < x
       ELSE IF listing.q.order = "asc" THEN ky < kx ELSE ky > kx

\* the position, from 0, of row x in the filtered, sorted list
Position(x) == Cardinality({y \in Matching : Precedes(y, x)})

Rels == {l.rel : l \in listing.links}

\* C25: the response of list_images holds exactly the rows at positions offset
\* .. offset+limit-1 of the filtered, sorted list, X-Total-Count is the
\* filtered count, there is a rel="next" link iff offset + limit < total, the
\* rel="prev" offset is max(0, offset - limit), and the rel="last" offset is
\* the largest multiple of limit below total; limit and offset being per_page
\* and (page-1)*per_page when the query is by page.
C25_Pagination ==
    Listed =>
        LET lim == SelfLink.limit
            off == SelfLink.offset
            total == Cardinality(Matching)
            left == IF total > off THEN total - off ELSE 0
        IN /\ listing.q.page # NoInt /\ listing.q.per_page # NoInt
                 => lim = listing.q.per_page /\ off = (listing.q.page - 1) * listing.q.per_page
           /\ listing.q.page = NoInt /\ listing.q.per_page = NoInt
                 => lim = listing.q.limit /\ off = listing.q.offset
           /\ lim >= 1 /\ off >= 0
           /\ listing.total = total
           /\ Len(listing.items) = IF lim < left THEN lim ELSE left
           /\ \A k \in 1..Len(listing.items) :
                 /\ listing.items[k] \in Matching
                 /\ Position(listing.items[k]) = off + k - 1
           /\ ("next" \in Rels) <=> (off + lim < total)
           /\ \A l \in listing.links :
                 /\ l.rel = "prev" => l.offset = IF off - lim > 0 THEN off - lim ELSE 0
                 /\ l.rel = "last" =>
                       /\ l.offset % lim = 0
                       /\ l.offset < total
                       /\ l.offset + lim >= total
           /\ ("last" \in Rels) <=> (total > 0)

C25_Witness ==
    /\ Listed
    /\ listing.q.owner = "alice" /\ listing.q.kind = "edge" /\ listing.q.status = NULL
    /\ listing.q.created_after = NoInt /\ listing.q.created_before = NoInt
    /\ listing.q.sort_by = "filename" /\ listing.q.order = "asc"
    /\ listing.q.page = 2 /\ listing.q.per_page = 3
    /\ listing.total = 8
    /\ listing.items = <<29, 35, 41>>
    /\ listing.links = {[rel |-> "self", offset |-> 3, limit |-> 3],
                         [rel |-> "next", offset |-> 6, limit |-> 3],
                         [rel |-> "prev", offset |-> 0, limit |-> 3],
                         [rel |-> "last", offset |-> 6, limit |-> 3]}

====
